---- MODULE Spec2Model ----
(***************************************************************************)
(* LINE -> OpenAI -> Notion dictionary webhook (api/webhook.ts).           *)
(*                                                                         *)
(* Four specifications share this module:                                  *)
(*   SpecRetry  the generic retry(fn, maxRetries, delay) helper run on an  *)
(*              arbitrary fallible operation;                              *)
(*   SpecOne    the HTTP handler on a request with at most one event:      *)
(*              every credential configuration, every event shape, every   *)
(*              way the three services can fail;                           *)
(*   Spec       the HTTP handler on a batch of events, one                 *)
(*              handleEventSafely call per event, interleaved at every     *)
(*              await;                                                     *)
(*   SpecPure   one JSON candidate taken through Schema.parse (of either   *)
(*              entry point) and, when accepted, through one attempt of    *)
(*              saveToNotion's fn with the payloads it sends.              *)
(***************************************************************************)
EXTENDS Integers, Sequences, FiniteSets, TLC

VARIABLES
    rt,        \* one run of retry(fn, maxRetries, delay) on a generic fn
    cfg,       \* process.env at module load: which credentials are present
    req,       \* the HTTP request: method and body
    hpc,       \* position of handler(req, res)
    res,       \* HTTP status written to res (0: nothing written yet)
    h,         \* per event: the state of its handleEventSafely(event) call
    flaky,     \* what may go wrong outside the program during this request
    pf         \* one candidate taken through Schema.parse and saveToNotion's fn

vars == <<rt, cfg, req, hpc, res, h, flaky, pf>>

(***************************************************************************)
(* Bounds of the model                                                     *)
(***************************************************************************)
MaxRetriesArg == 4   \* SpecRetry draws maxRetries from 0..MaxRetriesArg
MaxTextLen    == 2   \* message texts are strings of at most this length
MaxEvents     == 2   \* events in one request body

(***************************************************************************)
(* Program constants                                                       *)
(***************************************************************************)
DefaultMaxRetries == 3      \* retry(fn, maxRetries = 3, ...)
DefaultDelay      == 1000   \* retry(fn, ..., delay = 1000)

None == "none"

(***************************************************************************)
(* retry<T>(fn, maxRetries, delay)                                         *)
(*                                                                         *)
(* A retry frame is the record of the loop's locals (i, delay, maxRetries) *)
(* together with what an observer sees of the run: how often fn was        *)
(* invoked and the lengths of the sleeps, in order.                        *)
(***************************************************************************)
RetryFrame(maxRetries, delay) ==
    [i |-> 0, delay |-> delay, maxRetries |-> maxRetries,
     calls |-> 0, waits |-> <<>>]

NoFrame == RetryFrame(0, 0)

\* for (let i = 0; i < maxRetries; i++)   -- the loop test
RetryLoopTest(r) == r.i < r.maxRetries

\* try { return await fn(); }             -- fn is invoked
RetryInvoke(r) == [r EXCEPT !.calls = @ + 1]

\* if (i === maxRetries - 1) throw error; -- in the catch clause
RetryGivesUpMutantEarly(r) == r.i >= r.maxRetries - 2
RetryGivesUp(r) == r.i = r.maxRetries - 1

\* await sleep(delay);                    -- the sleep is started
RetrySleepMutantShared(r) ==
    [r EXCEPT !.waits =
        Append(@, IF \E j \in DOMAIN h : h[j].sleeps > 0
                  THEN r.delay * 2 ELSE r.delay)]
RetrySleep(r) == [r EXCEPT !.waits = Append(@, r.delay)]

\* delay *= 2; i++                        -- after the sleep, next iteration
RetryBackoffMutantLinear(r) == [r EXCEPT !.delay = @ + @ \div 2 + 1, !.i = @ + 1]
RetryBackoff(r) == [r EXCEPT !.delay = @ * 2, !.i = @ + 1]

\* which error leaves retry when it gives up: the one just caught
RetryThrownMutantFirst(errs, error) == IF errs = <<>> THEN error ELSE Head(errs)
RetryThrown(errs, error) == error

RetryFailed == [kind |-> "Retry failed", attempt |-> 0]
NoError == [kind |-> "none", attempt |-> 0]

(***************************************************************************)
(* SpecRetry: retry run on a generic operation.  fn's k-th invocation      *)
(* either resolves with a value or rejects with a fresh error object,      *)
(* identified here by the number of the attempt that raised it.            *)
(***************************************************************************)
Delays == {0, 1, 250, DefaultDelay}
Values == {"v1", "v2"}

FnError(k) == [kind |-> "fn", attempt |-> k]

\* retry(fn, maxRetries, delay) is called: runs to the first await or to the
\* final throw when the loop body is never entered
RetryStart(maxRetries, delay) ==
    LET r == RetryFrame(maxRetries, delay) IN
    IF RetryLoopTest(r)
    THEN [pc |-> "calling", r |-> RetryInvoke(r), delay0 |-> delay, errs |-> <<>>,
          fnValue |-> None, result |-> None, thrown |-> NoError]
    ELSE [pc |-> "thrown", r |-> r, delay0 |-> delay, errs |-> <<>>,
          fnValue |-> None, result |-> None, thrown |-> RetryFailed]

RtIdle == [pc |-> "idle", r |-> NoFrame, delay0 |-> 0, errs |-> <<>>,
           fnValue |-> None, result |-> None, thrown |-> NoError]

\* fn() resolved: return await fn()
RtFnResolves ==
    /\ rt.pc = "calling"
    /\ \E v \in Values :
          rt' = [rt EXCEPT !.pc = "returned", !.fnValue = v, !.result = v]
    /\ UNCHANGED <<cfg, req, hpc, res, h, flaky, pf>>

\* fn() rejected: the catch clause
RtFnRejects ==
    /\ rt.pc = "calling"
    /\ LET error == FnError(rt.r.calls) IN
       IF RetryGivesUp(rt.r)
       THEN rt' = [rt EXCEPT !.pc = "thrown",
                             !.thrown = RetryThrown(rt.errs, error),
                             !.errs = Append(@, error)]
       ELSE rt' = [rt EXCEPT !.pc = "sleeping",
                             !.r = RetrySleep(rt.r),
                             !.errs = Append(@, error)]
    /\ UNCHANGED <<cfg, req, hpc, res, h, flaky, pf>>

\* the sleep's timer fired: delay *= 2, i++, loop test, next attempt
RtWake ==
    /\ rt.pc = "sleeping"
    /\ LET r == RetryBackoff(rt.r) IN
       IF RetryLoopTest(r)
       THEN rt' = [rt EXCEPT !.pc = "calling", !.r = RetryInvoke(r)]
       ELSE rt' = [rt EXCEPT !.pc = "thrown", !.r = r, !.thrown = RetryFailed]
    /\ UNCHANGED <<cfg, req, hpc, res, h, flaky, pf>>

PfIdle == [pc |-> "idle"]
NoCfg == [line |-> FALSE, notion |-> FALSE, dbid |-> FALSE]
NoReq == [method |-> "POST", hasEvents |-> TRUE, events |-> <<>>]

InitRetry ==
    /\ \E m \in 0..MaxRetriesArg, d \in Delays : rt = RetryStart(m, d)
    /\ cfg = NoCfg
    /\ req = NoReq
    /\ hpc = "idle"
    /\ res = 0
    /\ h = <<>>
    /\ flaky = {}
    /\ pf = PfIdle

NextRetry == RtFnResolves \/ RtFnRejects \/ RtWake

SpecRetry == InitRetry /\ [][NextRetry]_vars

(***************************************************************************)
(* Strings.  A string is a sequence of characters; String.prototype.trim   *)
(* removes the white space at both ends.                                   *)
(***************************************************************************)
Chars == {" ", "a"}

RECURSIVE Strings(_)
Strings(n) ==
    IF n = 0 THEN {<<>>}
    ELSE LET S == Strings(n - 1) IN
         S \cup {Append(s, c) : s \in {t \in S : Len(t) = n - 1}, c \in Chars}

IsWhite(c) == c = " "

RECURSIVE TrimStart(_)
TrimStart(s) ==
    IF s # <<>> /\ IsWhite(Head(s)) THEN TrimStart(Tail(s)) ELSE s

RECURSIVE TrimEnd(_)
TrimEnd(s) ==
    IF s # <<>> /\ IsWhite(s[Len(s)]) THEN TrimEnd(SubSeq(s, 1, Len(s) - 1)) ELSE s

\* event.message.text.trim()
TrimMutantNone(s) == s
Trim(s) == TrimEnd(TrimStart(s))

(***************************************************************************)
(* Configuration: const { LINE_ACCESS_TOKEN, NOTION_TOKEN,                 *)
(* NOTION_DATABASE_ID, ... } = process.env, and the clients built from it. *)
(***************************************************************************)
Cfgs == [line : BOOLEAN, notion : BOOLEAN, dbid : BOOLEAN]

\* const lineClient = LINE_ACCESS_TOKEN ? new LineClient(...) : null
LineClientPresent(c) == c.line

\* const notion = NOTION_TOKEN ? new Notion({ auth: NOTION_TOKEN }) : null
NotionClientPresent(c) == c.notion

(***************************************************************************)
(* Events.  An element of req.body.events is JSON: null, or an object with *)
(* a type, possibly a message (with its own type and, for text, the text)  *)
(* and possibly a replyToken.  WebhookEvent, the declared element type,    *)
(* guarantees a message on every message event and a replyToken on every   *)
(* message and follow event; the cast in handler checks none of it.        *)
(***************************************************************************)
Absent == "absent"

Texts == Strings(MaxTextLen)

\* shapes of the declared type WebhookEvent
TextEvents ==
    {[json |-> "object", type |-> "message", message |-> "text", text |-> t,
      hasToken |-> TRUE] : t \in Texts}
ImageEvent ==
    [json |-> "object", type |-> "message", message |-> "image", text |-> <<>>,
     hasToken |-> TRUE]
FollowEvent ==
    [json |-> "object", type |-> "follow", message |-> Absent, text |-> <<>>,
     hasToken |-> TRUE]
UnfollowEvent ==
    [json |-> "object", type |-> "unfollow", message |-> Absent, text |-> <<>>,
     hasToken |-> FALSE]
TypedShapes == TextEvents \cup {ImageEvent, FollowEvent, UnfollowEvent}

\* JSON the endpoint accepts although it is no WebhookEvent
NullEvent ==
    [json |-> "null", type |-> Absent, message |-> Absent, text |-> <<>>,
     hasToken |-> FALSE]
NoMessageEvents ==
    {[json |-> "object", type |-> "message", message |-> Absent, text |-> <<>>,
      hasToken |-> b] : b \in BOOLEAN}
TokenlessTextEvent ==
    [json |-> "object", type |-> "message", message |-> "text", text |-> <<"a">>,
     hasToken |-> FALSE]
UntypedShapes == {NullEvent, TokenlessTextEvent} \cup NoMessageEvents

ShapeOf(ev) ==
    [json |-> ev.json, type |-> ev.type, message |-> ev.message,
     text |-> ev.text, hasToken |-> ev.hasToken]
IsTyped(ev) == ShapeOf(ev) \in TypedShapes

\* the event at position i of the body: reply tokens are unique per event
EventAt(shape, i) ==
    [json |-> shape.json, type |-> shape.type, message |-> shape.message,
     text |-> shape.text, hasToken |-> shape.hasToken,
     replyToken |-> IF shape.hasToken THEN i ELSE 0]

\* event.type !== "message" || event.message.type !== "text"
\* evaluated left to right; reading a property of null or undefined throws
FilterThrows(ev) ==
    \/ ev.json = "null"
    \/ ev.type = "message" /\ ev.message = Absent

IsTextMessage(ev) == ev.type = "message" /\ ev.message = "text"

\* "replyToken" in event
HasReplyToken(ev) == ev.hasToken

(***************************************************************************)
(* Schema (zod) and the language model's answers.                          *)
(*                                                                         *)
(* A candidate is what JSON.parse hands to Schema.parse: an object whose   *)
(* keys may be absent.  Arrays are kept by their length.                   *)
(***************************************************************************)
OtherWord == <<"b">>

\* an optional key: <<>> when the key is absent, <<v>> when it holds v
Nothing == <<>>
Some(v) == <<v>>
IsPresent(o) == o # Nothing
The(o) == o[1]

Candidates(word) ==
    [word     : {Nothing, Some(<<>>), Some(word), Some(OtherWord)},
     meanings : {Nothing, Some(0), Some(1)},
     examples : {Nothing, Some(0), Some(2), Some(4)}]

\* 意味: z.array(z.string()).min(1)
MeaningsOk(c) == IsPresent(c.meanings) /\ The(c.meanings) >= 1

ExamplesOkMutantNoMax(c) ==
    IsPresent(c.examples) => The(c.examples) >= 1

\* 例文: z.array(...).min(1).max(3).optional()
ExamplesOk(c) ==
    IsPresent(c.examples) => (The(c.examples) >= 1 /\ The(c.examples) <= 3)

\* 単語: z.string()
WordOk(c) == IsPresent(c.word)

\* Schema.parse(candidate) succeeds
SchemaAccepts(c) == WordOk(c) /\ MeaningsOk(c) /\ ExamplesOk(c)

NoCandidate == [word |-> Nothing, meanings |-> Nothing, examples |-> Nothing]

\* What one attempt of buildEntry's fn can end in: the completion call
\* rejects, the first choice has no content, the content is not JSON, or
\* the content is JSON for some candidate.
LmKinds == {"transport", "empty", "json"}
LmAnswers(word) ==
    [kind : LmKinds, cand : {NoCandidate}] \cup
    [kind : {"candidate"}, cand : Candidates(word)]

\* the answers of a language model that is up and does as it is told
GoodAnswers(word) ==
    [kind : {"candidate"},
     cand : [word : {Some(word)}, meanings : {Some(1)},
             examples : {Nothing, Some(2)}]]

\* what may go wrong outside the program during one request: the language
\* model is unreachable, or answers something other than asked; Notion calls
\* fail; LINE reply calls fail
Faults == {"lm-down", "lm-garbage", "notion", "line"}

LmOutcomes(word, fl) ==
    GoodAnswers(word)
    \cup (IF "lm-down" \in fl
          THEN {a \in LmAnswers(word) : a.kind = "transport"} ELSE {})
    \cup (IF "lm-garbage" \in fl
          THEN {a \in LmAnswers(word) : a.kind # "transport"} ELSE {})

AttemptErrorKindMutantNoValidation(a) ==
    CASE a.kind = "transport" -> "APIError"
      [] a.kind = "empty"     -> "No response from OpenAI"
      [] a.kind = "json"      -> "SyntaxError"
      [] OTHER -> None

\* the error one attempt of buildEntry's fn throws on answer a (None: it returns)
AttemptErrorKind(a) ==
    CASE a.kind = "transport" -> "APIError"
      [] a.kind = "empty"     -> "No response from OpenAI"
      [] a.kind = "json"      -> "SyntaxError"
      [] OTHER -> IF SchemaAccepts(a.cand) THEN None ELSE "ZodError"

\* if (e.例文 && e.例文.length)
HasExamples(e) == IsPresent(e.examples) /\ The(e.examples) > 0

(***************************************************************************)
(* handleEventSafely(event).  One record per event holds the position of   *)
(* the call (the await it is suspended at), its locals, and what an        *)
(* observer of the three services has seen it do.                          *)
(*                                                                         *)
(*   pc       "idle" | "lm" | "buildSleep" | "create" | "append" |         *)
(*            "saveSleep" | "confirm" | "notice" | "done"                  *)
(*   promise  state of the promise the async function returned             *)
(*   trail    the stages the event went through, in order                  *)
(*   title    the title of the page the last pages.create call asked for   *)
(*   confirms, confirmTo, confirmWord, confirmRes                          *)
(*            the confirmation replyMessage calls: how many, the token and *)
(*            the word of the last one, and how it ended                   *)
(*   notices, noticeTo, noticeRes   the same for the failure notice        *)
(***************************************************************************)
\* no replyMessage call was made
NotSent == Nothing

H0 ==
    [pc |-> "idle", promise |-> "pending", trail |-> <<>>,
     word |-> <<>>, entry |-> NoCandidate, built |-> FALSE, saved |-> FALSE,
     r |-> NoFrame, errs |-> <<>>, err |-> NoError,
     lm |-> 0, creates |-> 0, pages |-> 0, appends |-> 0, appended |-> 0,
     sleeps |-> 0,
     title |-> Nothing,
     confirms |-> 0, confirmTo |-> NotSent, confirmWord |-> Nothing,
     confirmRes |-> "none",
     notices |-> 0, noticeTo |-> NotSent, noticeRes |-> "none"]

Stage(x, s) == [x EXCEPT !.trail = Append(@, s)]

\* the async function returns (or throws out of its catch clause)
Settle(x, how) == [x EXCEPT !.pc = "done", !.promise = how]

\* } catch (err) { console.error(...);
\*   if ("replyToken" in event && lineClient) { try { await replyMessage(...) } ... } }
\* The in operator throws a TypeError when event is null.
CatchMutantRethrow(x, c, ev, error) ==
    Settle(Stage([x EXCEPT !.err = error], "failed"), "rejected")
Catch(x, c, ev, error) ==
    LET y == Stage([x EXCEPT !.err = error], "failed") IN
    IF ev.json = "null" THEN Settle(y, "rejected")
    ELSE IF HasReplyToken(ev) /\ LineClientPresent(c)
         THEN [y EXCEPT !.pc = "notice", !.notices = @ + 1,
                        !.noticeTo = Some(ev.replyToken)]
         ELSE Settle(y, "fulfilled")

\* if (lineClient) { await lineClient.replyMessage(event.replyToken,
\*                     { type: "text", text: `「${entry.単語}」...` }) }
StartConfirmMutantInputWord(x, c, ev) ==
    IF LineClientPresent(c)
    THEN Stage([x EXCEPT !.pc = "confirm", !.confirms = @ + 1,
                         !.confirmTo = Some(ev.replyToken),
                         !.confirmWord = Some(x.word)], "replying")
    ELSE Settle(x, "fulfilled")
StartConfirm(x, c, ev) ==
    IF LineClientPresent(c)
    THEN Stage([x EXCEPT !.pc = "confirm", !.confirms = @ + 1,
                         !.confirmTo = Some(ev.replyToken),
                         !.confirmWord = x.entry.word], "replying")
    ELSE Settle(x, "fulfilled")

\* the catch clause of retry, run inside this event's call
RetryCatch(x, c, ev, error, sleepPc) ==
    IF RetryGivesUp(x.r)
    THEN Catch([x EXCEPT !.errs = Append(@, error)], c, ev,
               RetryThrown(x.errs, error))
    ELSE [x EXCEPT !.pc = sleepPc, !.r = RetrySleep(@),
                   !.errs = Append(@, error), !.sleeps = @ + 1]

\* one attempt of saveToNotion's fn starts: props, then notion.pages.create
SaveAttemptMutantResume(x) ==
    IF x.pages > 0
    THEN [x EXCEPT !.pc = "append", !.r = RetryInvoke(@), !.appends = @ + 1]
    ELSE [x EXCEPT !.pc = "create", !.r = RetryInvoke(@), !.creates = @ + 1,
                   !.title = x.entry.word]
SaveAttempt(x) ==
    [x EXCEPT !.pc = "create", !.r = RetryInvoke(@), !.creates = @ + 1,
              !.title = x.entry.word]

\* if (!notion) throw new Error("Notion client not initialized")
SaveGuardThrows(c) == ~NotionClientPresent(c)

NotInitialized == [kind |-> "Notion client not initialized", attempt |-> 0]

\* await saveToNotion(entry), up to its first await
StartSave(x, c, ev) ==
    LET y == Stage(x, "persisting") IN
    IF SaveGuardThrows(c) THEN Catch(y, c, ev, NotInitialized)
    ELSE LET z == [y EXCEPT !.r = RetryFrame(DefaultMaxRetries, DefaultDelay),
                            !.errs = <<>>] IN
         IF RetryLoopTest(z.r) THEN SaveAttempt(z)
         ELSE Catch(z, c, ev, RetryFailed)

\* one attempt of buildEntry's fn starts: openai.chat.completions.create
BuildAttempt(x) == [x EXCEPT !.pc = "lm", !.r = RetryInvoke(@), !.lm = @ + 1]

\* const entry = await buildEntry(word), up to its first await
StartBuild(x, c, ev, word) ==
    LET y == Stage([x EXCEPT !.word = word,
                             !.r = RetryFrame(DefaultMaxRetries, DefaultDelay),
                             !.errs = <<>>], "building") IN
    IF RetryLoopTest(y.r) THEN BuildAttempt(y)
    ELSE Catch(y, c, ev, RetryFailed)

TypeError == [kind |-> "TypeError", attempt |-> 0]

\* handleEventSafely(event), up to its first await
HandleEventSafely(c, ev) ==
    LET x == Stage(H0, "received") IN
    IF FilterThrows(ev) THEN Catch(x, c, ev, TypeError)
    ELSE IF ~IsTextMessage(ev) THEN Settle(Stage(x, "filtered-out"), "fulfilled")
    ELSE LET word == Trim(ev.text) IN
         IF word = <<>> THEN Settle(Stage(x, "filtered-out"), "fulfilled")
         ELSE StartBuild(x, c, ev, word)

(***************************************************************************)
(* What the three services can answer.                                     *)
(***************************************************************************)
\* notion.pages.create({ parent: { database_id: NOTION_DATABASE_ID! }, ... })
\* is refused by the API when the database id is undefined
CreateOutcomes(c, fl) ==
    IF ~c.dbid THEN {FALSE} ELSE IF "notion" \in fl THEN BOOLEAN ELSE {TRUE}

AppendOutcomes(fl) == IF "notion" \in fl THEN BOOLEAN ELSE {TRUE}

\* lineClient.replyMessage(token, ...) is refused when the token is undefined
ReplyOutcomes(token, fl) ==
    IF token = 0 THEN {FALSE} ELSE IF "line" \in fl THEN BOOLEAN ELSE {TRUE}

CreateError(k) == [kind |-> "pages.create failed", attempt |-> k]
AppendError(k) == [kind |-> "blocks.children.append failed", attempt |-> k]
ReplyError == [kind |-> "replyMessage failed", attempt |-> 0]

(***************************************************************************)
(* Resumptions of handleEventSafely: each action runs one event's call     *)
(* from the await it is suspended at to its next await or to its end.      *)
(***************************************************************************)
Ev(i) == req.events[i]

\* openai.chat.completions.create settled; text check, JSON.parse, Schema.parse
LmReturns(i) ==
    /\ h[i].pc = "lm"
    /\ \E a \in LmOutcomes(h[i].word, flaky) :
          LET kind == AttemptErrorKind(a) IN
          IF kind = None
          THEN h' = [h EXCEPT ![i] =
                       StartSave([@ EXCEPT !.entry = a.cand, !.built = TRUE],
                                 cfg, Ev(i))]
          ELSE h' = [h EXCEPT ![i] =
                       RetryCatch(@, cfg, Ev(i),
                                  [kind |-> kind, attempt |-> h[i].r.calls],
                                  "buildSleep")]
    /\ UNCHANGED <<rt, cfg, req, hpc, res, flaky, pf>>

\* sleep(delay) of buildEntry's retry is over
BuildWake(i) ==
    /\ h[i].pc = "buildSleep"
    /\ LET x == [h[i] EXCEPT !.r = RetryBackoff(@)] IN
       h' = [h EXCEPT ![i] = IF RetryLoopTest(x.r) THEN BuildAttempt(x)
                             ELSE Catch(x, cfg, Ev(i), RetryFailed)]
    /\ UNCHANGED <<rt, cfg, req, hpc, res, flaky, pf>>

\* saveToNotion's retry returned: back in handleEventSafely
SaveReturned(x, c, ev) == StartConfirm([x EXCEPT !.saved = TRUE], c, ev)

\* notion.pages.create settled
CreateReturns(i) ==
    /\ h[i].pc = "create"
    /\ \E ok \in CreateOutcomes(cfg, flaky) :
          IF ok
          THEN LET x == [h[i] EXCEPT !.pages = @ + 1] IN
               h' = [h EXCEPT ![i] =
                       IF HasExamples(x.entry)
                       THEN [x EXCEPT !.pc = "append", !.appends = @ + 1]
                       ELSE SaveReturned(x, cfg, Ev(i))]
          ELSE h' = [h EXCEPT ![i] =
                       RetryCatch(@, cfg, Ev(i), CreateError(h[i].r.calls),
                                  "saveSleep")]
    /\ UNCHANGED <<rt, cfg, req, hpc, res, flaky, pf>>

\* notion.blocks.children.append settled
AppendReturns(i) ==
    /\ h[i].pc = "append"
    /\ \E ok \in AppendOutcomes(flaky) :
          IF ok
          THEN h' = [h EXCEPT ![i] =
                       SaveReturned([@ EXCEPT !.appended = @ + 1], cfg, Ev(i))]
          ELSE h' = [h EXCEPT ![i] =
                       RetryCatch(@, cfg, Ev(i), AppendError(h[i].r.calls),
                                  "saveSleep")]
    /\ UNCHANGED <<rt, cfg, req, hpc, res, flaky, pf>>

\* sleep(delay) of saveToNotion's retry is over
SaveWake(i) ==
    /\ h[i].pc = "saveSleep"
    /\ LET x == [h[i] EXCEPT !.r = RetryBackoff(@)] IN
       h' = [h EXCEPT ![i] = IF RetryLoopTest(x.r) THEN SaveAttempt(x)
                             ELSE Catch(x, cfg, Ev(i), RetryFailed)]
    /\ UNCHANGED <<rt, cfg, req, hpc, res, flaky, pf>>

\* the confirmation's replyMessage settled
ConfirmReturnsMutantAlwaysNotice(i) ==
    /\ h[i].pc = "confirm"
    /\ \E ok \in ReplyOutcomes(The(h[i].confirmTo), flaky) :
          h' = [h EXCEPT ![i] =
                  Catch([@ EXCEPT !.confirmRes = IF ok THEN "ok" ELSE "failed"],
                        cfg, Ev(i), ReplyError)]
    /\ UNCHANGED <<rt, cfg, req, hpc, res, flaky, pf>>

ConfirmReturns(i) ==
    /\ h[i].pc = "confirm"
    /\ \E ok \in ReplyOutcomes(The(h[i].confirmTo), flaky) :
          IF ok
          THEN h' = [h EXCEPT ![i] =
                       Settle(Stage([@ EXCEPT !.confirmRes = "ok"], "replied"),
                              "fulfilled")]
          ELSE h' = [h EXCEPT ![i] =
                       Catch([@ EXCEPT !.confirmRes = "failed"], cfg, Ev(i),
                             ReplyError)]
    /\ UNCHANGED <<rt, cfg, req, hpc, res, flaky, pf>>

\* the failure notice's replyMessage settled; catch (replyErr) only logs
NoticeReturns(i) ==
    /\ h[i].pc = "notice"
    /\ \E ok \in ReplyOutcomes(The(h[i].noticeTo), flaky) :
          h' = [h EXCEPT ![i] =
                  Settle(Stage([@ EXCEPT !.noticeRes = IF ok THEN "ok" ELSE "failed"],
                               "error-replied"),
                         "fulfilled")]
    /\ UNCHANGED <<rt, cfg, req, hpc, res, flaky, pf>>

(***************************************************************************)
(* handler(req, res)                                                       *)
(***************************************************************************)
\* await Promise.all(events.map(handleEventSafely)) settles
AllFulfilled(hs) == \A i \in DOMAIN hs : hs[i].promise = "fulfilled"
AnyRejected(hs) == \E i \in DOMAIN hs : hs[i].promise = "rejected"

\* handler runs up to the await: the method test, then events.map, which runs
\* every handleEventSafely call up to its first await, in order
Dispatch ==
    /\ hpc = "start"
    /\ IF req.method # "POST"
       THEN /\ res' = 405
            /\ hpc' = "done"
            /\ h' = h
       ELSE IF ~req.hasEvents
       THEN /\ res' = 500
            /\ hpc' = "done"
            /\ h' = h
       ELSE /\ res' = res
            /\ hpc' = "awaiting"
            /\ h' = [i \in DOMAIN req.events |-> HandleEventSafely(cfg, Ev(i))]
    /\ UNCHANGED <<rt, cfg, req, flaky, pf>>

\* Promise.all fulfilled: res.status(200).end();  rejected: the catch, 500
Respond ==
    /\ hpc = "awaiting"
    /\ \/ /\ AllFulfilled(h)
          /\ res' = 200
       \/ /\ AnyRejected(h)
          /\ res' = 500
    /\ hpc' = "done"
    /\ UNCHANGED <<rt, cfg, req, h, flaky, pf>>

Methods == {"POST", "GET"}

Bodies(shapes, n) ==
    {[method |-> "POST", hasEvents |-> FALSE, events |-> <<>>]} \cup
    {[method |-> m, hasEvents |-> TRUE,
      events |-> [i \in DOMAIN sh |-> EventAt(sh[i], i)]] :
        m \in Methods, sh \in UNION {[1..k -> shapes] : k \in 0..n}}

InitWith(cfgs, reqs, fls) ==
    /\ rt = RtIdle
    /\ cfg \in cfgs
    /\ req \in reqs
    /\ flaky \in fls
    /\ hpc = "start"
    /\ res = 0
    /\ h = [i \in DOMAIN req.events |-> H0]
    /\ pf = PfIdle

Step(i) ==
    \/ LmReturns(i)
    \/ BuildWake(i)
    \/ CreateReturns(i)
    \/ AppendReturns(i)
    \/ SaveWake(i)
    \/ ConfirmReturns(i)
    \/ NoticeReturns(i)

\* one request carrying at most one event: every configuration, every event
\* shape, every service free to fail
InitOne == InitWith(Cfgs, Bodies(TypedShapes \cup UntypedShapes, 1), {Faults})

\* one request carrying a batch of events, with all credentials present or the
\* reply transport missing, and the language model or Notion (not both) failing
\* together with LINE
BatchCfgs == {c \in Cfgs : c.notion /\ c.dbid}
BatchShapes ==
    {sh \in TextEvents : sh.text = <<" ", "a">>} \cup {ImageEvent, NullEvent}
BatchFlaky == {{}, {"lm-down", "line"}, {"notion", "line"}}

Init == InitWith(BatchCfgs, Bodies(BatchShapes, MaxEvents), BatchFlaky)

Next == Dispatch \/ Respond \/ \E i \in DOMAIN h : Step(i)

SpecOne == InitOne /\ [][Next]_vars

Spec == Init /\ [][Next]_vars

(***************************************************************************)
(* Properties of retry                                                     *)
(***************************************************************************)
RECURSIVE Pow2(_)
Pow2(n) == IF n = 0 THEN 1 ELSE 2 * Pow2(n - 1)

\* the sleeps a run with n failed-and-retried attempts must have made
BackoffSchedule(delay, n) == [k \in 1..n |-> delay * Pow2(k - 1)]

\* C3: when fn fails N times and then succeeds (N < maxRetries), retry returns
\* fn's value, fn was invoked exactly N+1 times, and exactly N sleeps happened,
\* of lengths delay, 2*delay, 4*delay, ... in that order (1000, 2000 with the
\* default delay).
C3_RetrySucceedsAfterN ==
    rt.pc = "returned" =>
        LET N == Len(rt.errs) IN
        /\ N < rt.r.maxRetries
        /\ rt.result = rt.fnValue
        /\ rt.result \in Values
        /\ rt.r.calls = N + 1
        /\ rt.r.waits = BackoffSchedule(rt.delay0, N)
        /\ (rt.delay0 = DefaultDelay /\ N = 2) => rt.r.waits = <<1000, 2000>>

C3_Witness ==
    /\ rt.pc = "returned"
    /\ Len(rt.errs) = 2
    /\ rt.r.maxRetries = DefaultMaxRetries
    /\ rt.r.waits = <<1000, 2000>>

\* C4: with maxRetries >= 1, when fn fails on every attempt, fn is invoked
\* exactly maxRetries times, retry sleeps exactly maxRetries-1 times (never
\* after the final failure), and the error thrown is the error object of the
\* last attempt itself, not the first attempt's and not "Retry failed".
C4_RetryExhausted ==
    (rt.pc = "thrown" /\ rt.r.maxRetries >= 1) =>
        /\ rt.r.calls = rt.r.maxRetries
        /\ Len(rt.errs) = rt.r.maxRetries
        /\ Len(rt.r.waits) = rt.r.maxRetries - 1
        /\ rt.thrown = FnError(rt.r.maxRetries)
        /\ rt.thrown = rt.errs[Len(rt.errs)]
        /\ rt.thrown # RetryFailed
        /\ rt.r.maxRetries > 1 => rt.thrown # rt.errs[1]

C4_Witness ==
    /\ rt.pc = "thrown"
    /\ rt.r.maxRetries = DefaultMaxRetries
    /\ rt.r.calls = 3
    /\ rt.thrown = FnError(3)

(***************************************************************************)
(* Properties of the handler                                               *)
(***************************************************************************)
Idx == DOMAIN h
Dispatched == hpc # "start" /\ req.method = "POST" /\ req.hasEvents
TypedBatch == \A i \in DOMAIN req.events : IsTyped(Ev(i))
BuildErrorKinds == {"APIError", "No response from OpenAI", "SyntaxError", "ZodError"}
SaveErrorKinds == {"pages.create failed", "blocks.children.append failed",
                   "Notion client not initialized"}

\* C1: in a batch of events, a failure of one event in build or in persistence
\* leaves its siblings alone: every text event that met no failure of its own
\* is built, persisted and (with the reply transport configured) confirmed on
\* its own token; the failure notice goes only to the token of an event that
\* failed, and only when that event has a token and the transport is
\* configured; no handleEventSafely promise rejects and the batch resolves
\* (the handler answers 200).
C1_FailureIsolated ==
    (Dispatched /\ TypedBatch) =>
        /\ \A i \in Idx :
              /\ h[i].promise # "rejected"
              /\ h[i].noticeTo # NotSent =>
                    /\ h[i].err # NoError
                    /\ HasReplyToken(Ev(i))
                    /\ LineClientPresent(cfg)
                    /\ h[i].noticeTo = Some(Ev(i).replyToken)
                    /\ h[i].noticeTo = Some(i)
              /\ (h[i].pc = "done" /\ h[i].err = NoError /\ h[i].word # <<>>) =>
                    /\ h[i].built /\ h[i].saved
                    /\ LineClientPresent(cfg) =>
                          (h[i].confirmTo = Some(i) /\ h[i].confirmRes = "ok")
        /\ hpc = "done" =>
              /\ res = 200
              /\ \A i \in Idx : h[i].promise = "fulfilled"

C1_Witness ==
    /\ hpc = "done" /\ res = 200
    /\ Len(req.events) = 2
    /\ \E i, j \in Idx :
          /\ i # j
          /\ h[i].err.kind \in SaveErrorKinds /\ ~h[i].saved
          /\ h[i].noticeTo = Some(i) /\ h[i].noticeRes = "ok"
          /\ h[j].saved /\ h[j].confirmTo = Some(j) /\ h[j].confirmRes = "ok"
          /\ h[j].noticeTo = NotSent

\* the stages of the specification's per-event state machine: the wait for the
\* confirmation's reply call is the end of the step from persisting to replied
RECURSIVE Stages(_)
Stages(t) ==
    IF t = <<>> THEN <<>>
    ELSE IF Head(t) = "replying" THEN Stages(Tail(t))
    ELSE <<Head(t)>> \o Stages(Tail(t))

IsPrefix(s, t) == Len(s) <= Len(t) /\ s = SubSeq(t, 1, Len(s))

EventPaths ==
    {<<"received", "filtered-out">>,
     <<"received", "building", "persisting", "replied">>,
     <<"received", "building", "failed", "error-replied">>,
     <<"received", "building", "persisting", "failed", "error-replied">>}

\* C2: every event follows one of the paths received -> filtered-out,
\* received -> building -> persisting -> replied, or
\* received -> building|persisting -> failed -> error-replied; the failed state
\* is entered only from building or persisting, so no failure notice is sent
\* for an event whose persistence already completed successfully.
C2_EventStateMachine ==
    (Dispatched /\ TypedBatch) =>
        \A i \in Idx :
            /\ \E path \in EventPaths : IsPrefix(Stages(h[i].trail), path)
            /\ h[i].noticeTo # NotSent => ~h[i].saved

\* C5: for an entry with examples, every attempt of saveToNotion starts with a
\* page creation, whatever the earlier attempts created; so a call whose
\* page creations all succeed and whose append fails k times before succeeding
\* has created k+1 pages, and one whose append fails on all 3 attempts leaves 3
\* pages behind and reports failure.
AppendFailures(x) == x.appends - x.appended - (IF x.pc = "append" THEN 1 ELSE 0)

C5_DuplicatePagesOnRetry ==
    Dispatched =>
        \A i \in Idx :
            (h[i].built /\ HasExamples(h[i].entry) /\ NotionClientPresent(cfg)) =>
                /\ h[i].creates = h[i].r.calls
                /\ h[i].pages <= h[i].creates
                /\ h[i].appends = h[i].pages
                /\ (h[i].saved /\ h[i].pages = h[i].creates) =>
                      /\ h[i].appended = 1
                      /\ h[i].pages = AppendFailures(h[i]) + 1
                /\ AppendFailures(h[i]) = DefaultMaxRetries =>
                      /\ h[i].pages = 3
                      /\ ~h[i].saved
                      /\ h[i].err = AppendError(3)
                      /\ h[i].confirmTo = NotSent

C5_Witness ==
    \E i \in Idx :
        /\ h[i].saved /\ HasExamples(h[i].entry)
        /\ AppendFailures(h[i]) = 2
        /\ h[i].pages = 3

C5_WitnessAllFail ==
    \E i \in Idx :
        /\ HasExamples(h[i].entry) /\ AppendFailures(h[i]) = 3 /\ h[i].pages = 3
        /\ h[i].pc = "done" /\ ~h[i].saved

\* C6: when the Notion client was not configured because the API token or the
\* database id was absent, saveToNotion fails at once with the "not
\* initialized" error: no retry, no wait, no page-creation or append call.
C6_NotInitializedFailsAtOnce ==
    (Dispatched /\ TypedBatch /\ (~cfg.notion \/ ~cfg.dbid)) =>
        \A i \in Idx :
            h[i].built =>
                /\ h[i].err = NotInitialized
                /\ h[i].creates = 0 /\ h[i].appends = 0
                /\ h[i].pc \notin {"create", "append", "saveSleep"}
                /\ h[i].sleeps = Len(h[i].r.waits)

\* C7: for an event that is not a message event, or a message event that is
\* not text, or a text message whose trimmed text is empty, handleEventSafely
\* makes no language-model call, no persistence call and no reply call, and
\* ends without error.
Inert(ev) ==
    \/ ev.type # "message"
    \/ ev.message # "text"
    \/ \A k \in 1..Len(ev.text) : IsWhite(ev.text[k])

C7_FilteredEventsAreInert ==
    (Dispatched /\ TypedBatch) =>
        \A i \in Idx :
            Inert(Ev(i)) =>
                /\ h[i].lm = 0 /\ h[i].creates = 0 /\ h[i].appends = 0
                /\ h[i].confirmTo = NotSent /\ h[i].noticeTo = NotSent
                /\ h[i].sleeps = 0
                /\ h[i].err = NoError
                /\ h[i].pc = "done" /\ h[i].promise = "fulfilled"
                /\ h[i].trail = <<"received", "filtered-out">>

C7_Witness ==
    /\ Dispatched /\ hpc = "done" /\ res = 200
    /\ \E i \in Idx :
          /\ Ev(i).message = "text" /\ Len(Ev(i).text) = 2 /\ Inert(Ev(i))
          /\ h[i].pc = "done"

\* C8: buildEntry retries alike on every kind of failure of an attempt
\* (transport error, empty content, JSON parse error, schema validation
\* error): each is followed by a backoff and a new language-model call while
\* attempts remain, the language model is called at most 3 times, and after
\* the third failure the error of that third attempt reaches the caller.
C8_BuildRetriesUniformly ==
    Dispatched =>
        \A i \in Idx :
            /\ h[i].lm <= DefaultMaxRetries
            /\ h[i].pc = "lm" =>
                  /\ Len(h[i].errs) = h[i].lm - 1
                  /\ h[i].r.waits = BackoffSchedule(DefaultDelay, h[i].lm - 1)
            /\ h[i].pc = "buildSleep" =>
                  /\ Len(h[i].errs) = h[i].lm
                  /\ h[i].lm < DefaultMaxRetries
                  /\ h[i].errs[h[i].lm].kind \in BuildErrorKinds
                  /\ h[i].r.waits = BackoffSchedule(DefaultDelay, h[i].lm)
            /\ (h[i].lm > 0 /\ ~h[i].built /\ h[i].err # NoError) =>
                  /\ h[i].lm = DefaultMaxRetries
                  /\ Len(h[i].errs) = DefaultMaxRetries
                  /\ h[i].err = h[i].errs[DefaultMaxRetries]
                  /\ h[i].err.attempt = DefaultMaxRetries
                  /\ h[i].err.kind \in BuildErrorKinds
                  /\ Len(h[i].r.waits) = DefaultMaxRetries - 1

C8_Witness ==
    \E i \in Idx :
        /\ ~h[i].built /\ h[i].lm = 3 /\ h[i].pc = "done"
        /\ h[i].errs[1].kind = "APIError"
        /\ h[i].errs[2].kind = "No response from OpenAI"
        /\ h[i].err.kind = "ZodError"

C8_WitnessRetryOnParseError ==
    \E i \in Idx :
        /\ h[i].built /\ h[i].lm = 2
        /\ h[i].errs = <<>> /\ h[i].sleeps >= 1

\* C9: handleEventSafely never rejects, whatever fails in build, persistence,
\* the confirmation reply or the failure notice; the handler answers 200 for
\* every well-formed events array and answers 500 only for errors raised outside per-event
\* processing, such as a body without an events array.
C9_HandlerNeverRejects ==
    /\ \A i \in Idx : h[i].promise # "rejected"
    /\ res = 500 => ~req.hasEvents
    /\ (hpc = "done" /\ Dispatched /\ TypedBatch) => res = 200

\* C10: every Entry the builder returns, which is then persisted and named in
\* the confirmation, has a word that is non-empty and equal to the trimmed text
\* of the message that triggered it.
C10_EntryWordIsTrimmedText ==
    \A i \in Idx :
        (h[i].built /\ IsTyped(Ev(i)) /\ (h[i].creates > 0 \/ h[i].confirmTo # NotSent)) =>
            /\ IsPresent(h[i].entry.word)
            /\ The(h[i].entry.word) # <<>>
            /\ The(h[i].entry.word) = Trim(Ev(i).text)

\* C11: for a text event whose build and persistence both succeeded, with the
\* reply transport configured, exactly one confirmation reply is sent, to the
\* event's own reply token, naming the word of the entry that was saved (the
\* title of the page created); no confirmation is sent for an event whose
\* build or persistence failed.
C11_OneConfirmationPerSavedEvent ==
    (Dispatched /\ TypedBatch) =>
        \A i \in Idx :
            /\ (h[i].saved /\ LineClientPresent(cfg)) =>
                  /\ h[i].built
                  /\ h[i].pages >= 1
                  /\ HasExamples(h[i].entry) => h[i].appended = 1
                  /\ h[i].confirms = 1
                  /\ h[i].confirmTo = Some(Ev(i).replyToken)
                  /\ h[i].confirmTo = Some(i)
                  /\ h[i].confirmWord = h[i].title
                  /\ h[i].confirmWord = h[i].entry.word
            /\ ~h[i].saved =>
                  /\ h[i].confirms = 0
                  /\ h[i].confirmTo = NotSent

C11_Witness ==
    \E i \in Idx :
        /\ h[i].saved /\ HasExamples(h[i].entry) /\ h[i].pc = "done"
        /\ h[i].confirms = 1 /\ h[i].confirmRes = "ok"
        /\ h[i].confirmWord = Some(OtherWord)
        /\ h[i].creates = 2

(***************************************************************************)
(* Schema.parse(JSON.parse(text)) on whole candidates.                     *)
(*                                                                         *)
(* A JSON value is a record: t is its kind, s its characters when it is a  *)
(* string (a sequence of tokens, <<>> being the empty string), a its items *)
(* when it is an array.  A key the object does not have is JAbsent.        *)
(***************************************************************************)
MaxMeanings == 2
MaxExamplesLen == 4

JAbsent == [t |-> "absent", s |-> <<>>, a |-> <<>>]
JNull == [t |-> "null", s |-> <<>>, a |-> <<>>]
JStr(s) == [t |-> "string", s |-> s, a |-> <<>>]
JArr(a) == [t |-> "array", s |-> <<>>, a |-> a]

\* z.string()
IsString(v) == v.t = "string"

\* z.string().optional()
IsOptionalString(v) == v.t = "absent" \/ IsString(v)

\* z.array(z.string())
IsStringArray(v) == v.t = "array" /\ \A k \in DOMAIN v.a : IsString(v.a[k])

\* z.array(z.string()).optional()
IsOptionalStringArray(v) == v.t = "absent" \/ IsStringArray(v)

\* z.object({ 英: z.string(), 日: z.string().optional() })
IsExample(o) == IsString(o.src) /\ IsOptionalString(o.tr)

\* z.array(z.object({...})) ... .optional(), the item types only
IsOptionalExampleArray(v) ==
    v.t = "absent" \/ (v.t = "array" /\ \A k \in DOMAIN v.a : IsExample(v.a[k]))

\* new URL(s) does not throw: a scheme, a colon and, for http(s), "//" and
\* a host
SpecialSchemes == {"http", "https"}
Schemes == SpecialSchemes \cup {"mailto"}
IsUrl(s) ==
    /\ Len(s) >= 2
    /\ s[1] \in Schemes
    /\ s[2] = ":"
    /\ s[1] \in SpecialSchemes => (Len(s) >= 4 /\ s[3] = "//")

\* the two builds of the program
EntryPoints == {"api/webhook.ts", "dist/server.js"}

\* 出典URL: z.string().optional() in api/webhook.ts,
\*          z.string().url().optional() in dist/server.js
UrlOk(ep, v) ==
    \/ v.t = "absent"
    \/ IsString(v) /\ (ep = "dist/server.js" => IsUrl(v.s))

\* every key has the type the schema gives it
TypesOk(ep, c) ==
    /\ IsString(c.word)
    /\ IsOptionalString(c.phonetic)
    /\ IsOptionalStringArray(c.pos)
    /\ IsStringArray(c.meanings)
    /\ IsOptionalString(c.etymology)
    /\ IsOptionalStringArray(c.collocations)
    /\ IsOptionalExampleArray(c.examples)
    /\ IsOptionalString(c.cefr)
    /\ IsOptionalStringArray(c.synonyms)
    /\ UrlOk(ep, c.url)

\* what the handler's model keeps of a candidate: the word and the two
\* lengths the schema bounds
Summary(c) ==
    [word     |-> IF IsString(c.word) THEN Some(c.word.s) ELSE Nothing,
     meanings |-> IF c.meanings.t = "array"
                  THEN Some(Len(c.meanings.a)) ELSE Nothing,
     examples |-> IF c.examples.t = "array"
                  THEN Some(Len(c.examples.a)) ELSE Nothing]

\* Schema.parse(candidate) does not throw
ParseAccepts(ep, c) == TypesOk(ep, c) /\ SchemaAccepts(Summary(c))

\* the value Schema.parse returns for one key: zod copies a key the input
\* has and leaves out a key it does not have (no default, no null)
ParsedKey(v) == IF v.t = "absent" THEN JAbsent ELSE v

\* the Entry Schema.parse returns for an accepted candidate
ParsedEntry(c) == [k \in DOMAIN c |-> ParsedKey(c[k])]

OptionalKeys ==
    {"phonetic", "pos", "etymology", "collocations", "examples", "cefr",
     "synonyms", "url"}

\* candidates the language model may answer with
Repeat(tok, k) == [j \in 1..k |-> tok]
MeaningsOf(n) == JArr([k \in 1..n |-> JStr(Repeat("m", k))])
ExampleAt(k) ==
    [src |-> JStr(Repeat("s", k)),
     tr  |-> IF k % 3 = 1 THEN JStr(Repeat("t", k))
             ELSE IF k % 3 = 2 THEN JAbsent ELSE JStr(<<>>)]
ExamplesOf(n) == JArr([k \in 1..n |-> ExampleAt(k)])
GoodUrl == <<"https", ":", "//", "example.com">>
BadUrls == {<<"example.com">>, <<"https", ":">>}

PureCandidates ==
    [word         : {JAbsent, JStr(<<>>), JStr(<<"w">>)},
     phonetic     : {JAbsent, JNull, JStr(<<>>), JStr(<<"p">>)},
     pos          : {JAbsent, JArr(<<>>), JArr(<<JStr(<<"adj">>)>>)},
     meanings     : {JAbsent, JNull} \cup {MeaningsOf(n) : n \in 0..MaxMeanings},
     etymology    : {JAbsent, JStr(<<"e">>)},
     collocations : {JAbsent, JArr(<<JStr(<<"c1">>), JStr(<<"c2">>)>>)},
     examples     : {JAbsent} \cup {ExamplesOf(n) : n \in 0..MaxExamplesLen},
     cefr         : {JAbsent, JStr(<<"C1">>)},
     synonyms     : {JAbsent, JArr(<<JNull>>)},
     url          : {JAbsent, JStr(<<>>), JStr(GoodUrl)}
                        \cup {JStr(u) : u \in BadUrls}]

NoEntry == [k \in DOMAIN ParsedEntry(CHOOSE c \in PureCandidates : TRUE)
               |-> JAbsent]

\* the literals `• ${m}` and `  — ${s.日}` put before a meaning and a
\* translation (the bullet and the em dash written in ASCII)
Bullet == "* "
EmDash == "  -- "

\* JavaScript's test of a value ("e.X ? ... : undefined"): undefined, null
\* and the empty string are falsy, every array is truthy
TruthyMutantPresent(v) == v.t # "absent"

Truthy(v) == v.t \notin {"absent", "null"} /\ ~(v.t = "string" /\ v.s = <<>>)

\* a.join(sep), a being an array of strings
RECURSIVE Join(_, _)
Join(a, sep) ==
    IF Len(a) = 0 THEN <<>>
    ELSE IF Len(a) = 1 THEN a[1].s
    ELSE a[1].s \o sep \o Join(Tail(a), sep)

\* const props = { ... }: a property is Some(list of text contents), or
\* Nothing when the code sets it to undefined (JSON leaves it out)
PageProps(e) ==
    [title        |-> Some(<<e.word.s>>),
     phonetic     |-> IF Truthy(e.phonetic)
                      THEN Some(<<e.phonetic.s>>) ELSE Nothing,
     pos          |-> IF Truthy(e.pos)
                      THEN Some([k \in DOMAIN e.pos.a |-> e.pos.a[k].s])
                      ELSE Nothing,
     meanings     |-> Some([k \in DOMAIN e.meanings.a |->
                               <<Bullet>> \o e.meanings.a[k].s]),
     etymology    |-> IF Truthy(e.etymology)
                      THEN Some(<<e.etymology.s>>) ELSE Nothing,
     collocations |-> IF Truthy(e.collocations)
                      THEN Some(<<Join(e.collocations.a, <<", ">>)>>)
                      ELSE Nothing,
     cefr         |-> IF Truthy(e.cefr) THEN Some(<<e.cefr.s>>) ELSE Nothing,
     synonyms     |-> IF Truthy(e.synonyms)
                      THEN Some(<<Join(e.synonyms.a, <<", ">>)>>)
                      ELSE Nothing,
     url          |-> IF Truthy(e.url) THEN Some(<<e.url.s>>) ELSE Nothing]

NoProps == [k \in DOMAIN PageProps(NoEntry) |-> Nothing]

\* ids notion.pages.create may answer with
PageIds == {"page-1", "page-2"}

\* children: e.例文.map(s => ...): per example the list of its text
\* segments
AppendChildrenMutantAlwaysTranslation(exs) ==
    [k \in DOMAIN exs |-> <<exs[k].src.s, <<EmDash>> \o exs[k].tr.s>>]

AppendChildren(exs) ==
    [k \in DOMAIN exs |->
        <<exs[k].src.s>> \o
            (IF Truthy(exs[k].tr) THEN << <<EmDash>> \o exs[k].tr.s >>
             ELSE <<>>)]

\* if (e.例文 && e.例文.length)
AppendsExamples(e) == Truthy(e.examples) /\ Len(e.examples.a) # 0

PfStart(ep, c) ==
    [pc |-> "candidate", ep |-> ep, cand |-> c, accepted |-> FALSE,
     entry |-> NoEntry, props |-> NoProps, pageId |-> "none",
     append |-> Nothing]

\* return Schema.parse(JSON.parse(text))
PfParse ==
    /\ pf.pc = "candidate"
    /\ pf' = IF ParseAccepts(pf.ep, pf.cand)
             THEN [pf EXCEPT !.pc = "parsed", !.accepted = TRUE,
                             !.entry = ParsedEntry(pf.cand)]
             ELSE [pf EXCEPT !.pc = "ZodError"]
    /\ UNCHANGED <<rt, cfg, req, hpc, res, h, flaky>>

\* const page = await notion.pages.create({ parent, properties: props })
PfCreate ==
    /\ pf.pc = "parsed"
    /\ \E id \in PageIds :
          pf' = [pf EXCEPT !.pc = "created", !.props = PageProps(pf.entry),
                           !.pageId = id]
    /\ UNCHANGED <<rt, cfg, req, hpc, res, h, flaky>>

\* the rest of fn: blocks.children.append when there are examples
PfAppend ==
    /\ pf.pc = "created"
    /\ pf' = IF AppendsExamples(pf.entry)
             THEN [pf EXCEPT !.pc = "returned",
                             !.append =
                                Some([block_id |-> pf.pageId,
                                      children |->
                                         AppendChildren(pf.entry.examples.a)])]
             ELSE [pf EXCEPT !.pc = "returned"]
    /\ UNCHANGED <<rt, cfg, req, hpc, res, h, flaky>>

InitPure ==
    /\ \E ep \in EntryPoints, c \in PureCandidates : pf = PfStart(ep, c)
    /\ rt = RtIdle
    /\ cfg = NoCfg
    /\ req = NoReq
    /\ hpc = "idle"
    /\ res = 0
    /\ h = <<>>
    /\ flaky = {}

NextPure == PfParse \/ PfCreate \/ PfAppend

SpecPure == InitPure /\ [][NextPure]_vars

Parsed == pf.pc # "candidate"

(***************************************************************************)
(* C12: Schema.parse throws for every candidate whose meanings are missing *)
(* or an empty list and for every candidate whose examples are present     *)
(* with no item or with more than three; the Entry it returns for an       *)
(* accepted candidate has every optional key the candidate omits absent,   *)
(* at least one meaning and, when it has examples, one to three of them.   *)
(***************************************************************************)
C12_SchemaCardinalities ==
    Parsed =>
        /\ pf.cand.meanings.t # "array" => ~pf.accepted
        /\ (pf.cand.meanings.t = "array" /\ Len(pf.cand.meanings.a) = 0)
              => ~pf.accepted
        /\ (pf.cand.examples.t = "array" /\ Len(pf.cand.examples.a) = 0)
              => ~pf.accepted
        /\ (pf.cand.examples.t = "array" /\ Len(pf.cand.examples.a) > 3)
              => ~pf.accepted
        /\ pf.accepted =>
              /\ \A k \in OptionalKeys :
                    pf.cand[k].t = "absent" => pf.entry[k] = JAbsent
              /\ pf.entry.meanings.t = "array"
              /\ Len(pf.entry.meanings.a) >= 1
              /\ pf.entry.examples.t # "absent" =>
                    /\ pf.entry.examples.t = "array"
                    /\ Len(pf.entry.examples.a) >= 1
                    /\ Len(pf.entry.examples.a) <= 3

C12_Witness ==
    /\ Parsed /\ pf.accepted
    /\ Len(pf.entry.examples.a) = 3
    /\ Len(pf.entry.meanings.a) = 1
    /\ pf.entry.phonetic = JAbsent
    /\ pf.entry.url = JAbsent

C12_WitnessRejected ==
    /\ Parsed /\ ~pf.accepted
    /\ TypesOk(pf.ep, pf.cand)
    /\ Len(pf.cand.meanings.a) >= 1
    /\ Len(pf.cand.examples.a) = 4

(***************************************************************************)
(* C13: in both builds Schema.parse throws for every candidate whose       *)
(* 出典URL is present and is not a valid URL, so no accepted Entry carries *)
(* a malformed source URL.  The schema of api/webhook.ts declares the key  *)
(* as z.string().optional(), without .url(): a candidate with a malformed  *)
(* URL is accepted there.                                                  *)
(***************************************************************************)
C13_MalformedUrlRejected ==
    Parsed =>
        /\ (pf.cand.url.t # "absent" /\ ~IsUrl(pf.cand.url.s)) => ~pf.accepted
        /\ (pf.accepted /\ pf.entry.url.t # "absent") => IsUrl(pf.entry.url.s)

Created == pf.pc \in {"created", "returned"}
OptionalStringProps == {"phonetic", "etymology", "cefr", "url"}
OptionalListProps == {"pos", "collocations", "synonyms"}
TitleAndMeanings ==
    /\ pf.props.title = Some(<<pf.entry.word.s>>)
    /\ IsPresent(pf.props.meanings)
    /\ Len(The(pf.props.meanings)) = Len(pf.entry.meanings.a)
    /\ \A k \in DOMAIN pf.entry.meanings.a :
          The(pf.props.meanings)[k] = <<Bullet>> \o pf.entry.meanings.a[k].s
OnlyWordAndMeanings ==
    (\A f \in OptionalStringProps \cup OptionalListProps :
          pf.entry[f].t = "absent")
       => \A f \in OptionalStringProps \cup OptionalListProps :
             pf.props[f] = Nothing

(***************************************************************************)
(* C14, as stated: the page-creation payload has the word as title, one    *)
(* bulleted item per meaning in order, and a property for an optional      *)
(* field if and only if the Entry has that field.  saveToNotion tests the  *)
(* fields by truthiness, so an optional string that is present and empty   *)
(* gets no property.                                                       *)
(***************************************************************************)
C14_PropertyIffPresent ==
    Created =>
        /\ TitleAndMeanings
        /\ \A f \in OptionalStringProps \cup OptionalListProps :
              IsPresent(pf.props[f]) <=> pf.entry[f].t # "absent"
        /\ OnlyWordAndMeanings

(***************************************************************************)
(* C14, amended: the page-creation payload has the word as title, one      *)
(* bulleted item per meaning in order, a property for an optional string   *)
(* field (phonetic, etymology, CEFR, source URL) if and only if the Entry  *)
(* has it and it is not the empty string, and a property for an optional   *)
(* list field (part of speech, collocations, synonyms) if and only if the  *)
(* Entry has it; an Entry of word and meanings gives title and meanings    *)
(* only.                                                                   *)
(***************************************************************************)
C14_PropertyIffPresentAndNonEmpty ==
    Created =>
        /\ TitleAndMeanings
        /\ \A f \in OptionalStringProps :
              IsPresent(pf.props[f])
                 <=> (pf.entry[f].t = "string" /\ pf.entry[f].s # <<>>)
        /\ \A f \in OptionalStringProps :
              IsPresent(pf.props[f]) => pf.props[f] = Some(<<pf.entry[f].s>>)
        /\ \A f \in OptionalListProps :
              IsPresent(pf.props[f]) <=> pf.entry[f].t = "array"
        /\ OnlyWordAndMeanings

C14_Witness ==
    /\ Created
    /\ pf.entry.phonetic = JStr(<<>>) /\ pf.props.phonetic = Nothing
    /\ pf.entry.cefr.t = "string" /\ IsPresent(pf.props.cefr)
    /\ pf.entry.pos = JArr(<<>>) /\ pf.props.pos = Some(<<>>)
    /\ pf.props.collocations = Some(<< <<"c1", ", ", "c2">> >>)
    /\ Len(The(pf.props.meanings)) = 2

C14_WitnessMinimal ==
    /\ Created
    /\ \A f \in OptionalStringProps \cup OptionalListProps :
          pf.entry[f].t = "absent" /\ pf.props[f] = Nothing
    /\ pf.props.title = Some(<< <<"w">> >>)

Returned == pf.pc = "returned"
AppendCall == The(pf.append)
AppendTargetsAndItems ==
    /\ IsPresent(pf.append) <=> pf.entry.examples.t # "absent"
    /\ IsPresent(pf.append) =>
          /\ AppendCall.block_id = pf.pageId
          /\ Len(AppendCall.children) = Len(pf.entry.examples.a)
          /\ \A k \in DOMAIN pf.entry.examples.a :
                AppendCall.children[k][1] = pf.entry.examples.a[k].src.s
ItemHasTranslation(k) ==
    /\ Len(AppendCall.children[k]) = 2
    /\ AppendCall.children[k][2] = <<EmDash>> \o pf.entry.examples.a[k].tr.s
ItemHasSourceOnly(k) == Len(AppendCall.children[k]) = 1

(***************************************************************************)
(* C15, as stated: saveToNotion appends blocks if and only if the Entry    *)
(* has examples, to the page its own pages.create returned, one bulleted   *)
(* item per example in order, each holding the source text and then the    *)
(* em-dash-prefixed translation exactly when the example has a             *)
(* translation.  The translation is tested by truthiness, so an example    *)
(* whose translation is the empty string gets the source text only.        *)
(***************************************************************************)
C15_TranslationIffPresent ==
    Returned =>
        /\ AppendTargetsAndItems
        /\ IsPresent(pf.append) =>
              \A k \in DOMAIN pf.entry.examples.a :
                 IF pf.entry.examples.a[k].tr.t # "absent"
                 THEN ItemHasTranslation(k) ELSE ItemHasSourceOnly(k)

(***************************************************************************)
(* C15, amended: saveToNotion appends blocks if and only if the Entry has  *)
(* examples, to the page its own pages.create returned, one bulleted item  *)
(* per example in order, each holding the source text and then the         *)
(* em-dash-prefixed translation exactly when the example has a translation *)
(* that is not the empty string.                                           *)
(***************************************************************************)
C15_TranslationIffNonEmpty ==
    Returned =>
        /\ AppendTargetsAndItems
        /\ IsPresent(pf.append) =>
              \A k \in DOMAIN pf.entry.examples.a :
                 IF /\ pf.entry.examples.a[k].tr.t = "string"
                    /\ pf.entry.examples.a[k].tr.s # <<>>
                 THEN ItemHasTranslation(k) ELSE ItemHasSourceOnly(k)

C15_Witness ==
    /\ Returned /\ IsPresent(pf.append)
    /\ AppendCall.block_id = "page-2"
    /\ AppendCall.children =
          << <<<<"s">>, <<EmDash, "t">>>>, <<<<"s", "s">>>>,
             <<<<"s", "s", "s">>>> >>

C15_WitnessNoExamples ==
    Returned /\ pf.entry.examples = JAbsent /\ pf.append = Nothing

NoExternalCall(x) ==
    x.lm = 0 /\ x.creates = 0 /\ x.appends = 0 /\ x.confirms = 0 /\ x.notices = 0

(***************************************************************************)
(* C16: a request that is not a POST is answered 405 and no event of it is *)
(* processed; a POST whose events were all dispatched is answered 200; a   *)
(* POST that fails in the dispatcher itself (no events array) is answered  *)
(* 500; one response is produced, when the handler is done.  A null        *)
(* element of the events array makes its handleEventSafely call reject     *)
(* (C9), and the POST is answered 500 although every event was dispatched. *)
(***************************************************************************)
C16_ResponsePerRequest ==
    /\ req.method # "POST" =>
          /\ hpc = "done" => res = 405
          /\ \A i \in Idx : NoExternalCall(h[i]) /\ h[i].pc = "idle"
    /\ (hpc = "done" /\ Dispatched) => res = 200
    /\ (hpc = "done" /\ req.method = "POST" /\ ~req.hasEvents) => res = 500
    /\ res # 0 <=> hpc = "done"

CallsInOrder(i) ==
    /\ h[i].creates > 0 =>
          /\ h[i].built
          /\ WordOk(h[i].entry) /\ MeaningsOk(h[i].entry)
          /\ ExamplesOk(h[i].entry)
    /\ h[i].pc \in {"lm", "buildSleep"} => h[i].creates = 0
    /\ h[i].confirms > 0 =>
          /\ h[i].saved
          /\ h[i].pc \notin {"create", "append", "saveSleep"}
          /\ IF HasExamples(h[i].entry) THEN h[i].appended = 1
             ELSE h[i].pages = 1
CallStepsInOrder(i) ==
    /\ h'[i].lm > h[i].lm => (h[i].creates = 0 /\ h'[i].creates = 0)
    /\ (h'[i].creates > h[i].creates \/ h'[i].appends > h[i].appends)
          => (h[i].confirms = 0 /\ h'[i].confirms = 0)
    /\ h'[i].confirms > h[i].confirms =>
          /\ h[i].pc \in {"create", "append"}
          /\ h'[i].pages > h[i].pages \/ h'[i].appended > h[i].appended

(***************************************************************************)
(* C17: per event no page-creation call is issued before a language-model  *)
(* attempt of that event returned an entry the schema accepts, no          *)
(* language-model call is issued once a page-creation call was issued, and *)
(* the confirmation reply is issued only in the step in which the last     *)
(* persistence call of the event returned successfully.                    *)
(***************************************************************************)
C17_ExternalCallsOrdered ==
    /\ [](\A i \in Idx : CallsInOrder(i))
    /\ [][\A i \in Idx : CallStepsInOrder(i)]_vars

C17_Witness ==
    \E i \in Idx :
        /\ h[i].confirms = 1 /\ h[i].lm = 2 /\ h[i].creates = 2
        /\ h[i].appends = 2 /\ h[i].appended = 1

\* what a call of handleEventSafely was given by its own external calls, and
\* where that has taken it
OwnResults(x) ==
    <<x.entry, x.lm, x.creates, x.pages, x.appends, x.appended, x.errs,
      x.err, x.confirmRes, x.noticeRes>>
OwnControl(x) ==
    <<x.pc, x.promise, x.trail, x.word, x.built, x.saved, x.r, x.sleeps,
      x.title, x.confirms, x.confirmWord, x.notices>>
InBackoff(x) == x.pc \in {"buildSleep", "saveSleep"}
Running(x) == x.pc \notin {"idle", "done"}
\* two handlers of like events that are not at the same place were given
\* different results by their own calls
OwnStateOnly ==
    \A i, j \in Idx :
        (/\ i < j
         /\ OwnControl(h[i]) # OwnControl(h[j])
         /\ ShapeOf(Ev(i)) = ShapeOf(Ev(j)))
            => OwnResults(h[i]) # OwnResults(h[j])
BackoffBlocksNoSibling ==
    \A i, j \in Idx :
        (i # j /\ InBackoff(h[i]) /\ Running(h[j])) => ENABLED Step(j)
OneHandlerPerStep ==
    (hpc = "awaiting" /\ hpc' = "awaiting") =>
        \A i, j \in Idx : i < j => (h'[i] = h[i] \/ h'[j] = h[j])

(***************************************************************************)
(* C18: the handlers of one batch do not interfere.  Under every           *)
(* interleaving a step of one handler changes that handler alone, and two  *)
(* handlers given the same event content and the same results by their own *)
(* external calls are at the same place with the same retry frame, entry   *)
(* and calls issued; while one handler waits in a retry backoff every      *)
(* other handler that has not finished can take its next step.             *)
(***************************************************************************)
C18_HandlersDoNotInterfere ==
    /\ [](OwnStateOnly /\ BackoffBlocksNoSibling)
    /\ [][OneHandlerPerStep]_vars

C18_Witness ==
    \E i, j \in Idx :
        /\ i # j
        /\ h[i].pc = "saveSleep" /\ h[i].sleeps = 1
        /\ h[j].pc = "done" /\ h[j].saved /\ h[j].sleeps = 1
        /\ ShapeOf(Ev(i)) = ShapeOf(Ev(j))

CallsBounded(x) ==
    /\ x.lm <= DefaultMaxRetries
    /\ x.creates <= DefaultMaxRetries
    /\ x.appends <= DefaultMaxRetries
    /\ x.confirms + x.notices <= 2

(***************************************************************************)
(* C19: every handler issues at most 3 language-model calls, 3             *)
(* page-creation calls, 3 block-append calls and 2 reply attempts, a       *)
(* handler that has not reached its terminal state always has a step to    *)
(* take once the call it waits for settles, and the HTTP response is sent  *)
(* only when every event of the batch has reached its terminal state.      *)
(* With a null element in the array Promise.all rejects at once (C9) and   *)
(* 500 is sent while the handlers of the other events are still running.   *)
(***************************************************************************)
C19_BoundedCallsThenResponse ==
    /\ \A i \in Idx : CallsBounded(h[i])
    /\ \A i \in Idx : (Dispatched /\ Running(h[i])) => ENABLED Step(i)
    /\ (res # 0 /\ Dispatched) => \A i \in Idx : h[i].pc = "done"

ThrownKinds ==
    BuildErrorKinds \cup SaveErrorKinds
        \cup {RetryFailed.kind, NotInitialized.kind, ReplyError.kind}

(***************************************************************************)
(* C20: for every event at most one of the two replies is delivered; the   *)
(* failure notice is attempted only when an earlier step of the same event *)
(* threw (for an event object: the build, the persistence or the           *)
(* confirmation send), at most once, and never after a delivered           *)
(* confirmation; every reply attempt carries the event's own reply token.  *)
(***************************************************************************)
C20_AtMostOneReplyDelivered ==
    Dispatched =>
        \A i \in Idx :
            /\ ~(h[i].confirmRes = "ok" /\ h[i].noticeRes = "ok")
            /\ h[i].confirms <= 1 /\ h[i].notices <= 1
            /\ h[i].notices > 0 =>
                  /\ h[i].err # NoError
                  /\ h[i].confirmRes # "ok"
                  /\ h[i].pc \in {"notice", "done"}
                  /\ IsTyped(Ev(i)) => h[i].err.kind \in ThrownKinds
                  /\ (IsTyped(Ev(i)) /\ h[i].err = ReplyError)
                        <=> h[i].confirmRes = "failed"
            /\ h[i].confirmTo \in {NotSent, Some(Ev(i).replyToken)}
            /\ h[i].noticeTo \in {NotSent, Some(Ev(i).replyToken)}
            /\ h[i].confirms > 0 <=> h[i].confirmTo # NotSent
            /\ h[i].notices > 0 <=> h[i].noticeTo # NotSent

C20_Witness ==
    \E i, j \in Idx :
        /\ i # j
        /\ h[i].saved /\ h[i].confirmRes = "failed" /\ h[i].noticeRes = "ok"
        /\ h[i].noticeTo = Some(i)
        /\ h[j].confirmRes = "ok" /\ h[j].confirmTo = Some(j)
        /\ h[j].notices = 0

====
